---- MODULE Spec2Model ----
(***************************************************************************)
(* Model of the mgd input plugin (plugins/inputs/mgd/mgd.go).              *)
(*                                                                         *)
(* Gather polls every configured server with one blocking HTTP GET,        *)
(* decodes the JSON status document and hands one emission per entry (and  *)
(* per "code-"/"fbs-" key of a downsteram entry) to the accumulator.       *)
(*                                                                         *)
(* Representation.                                                         *)
(*  - Strings are TLA+ strings; Len, SubSeq and \o act on them as on Go    *)
(*    strings (1-based here, 0-based in Go).                               *)
(*  - An interface{} value is a record [t, n, s, m]: t is the dynamic     *)
(*    type, n the number, s the string, m the nested mapping.  A float64   *)
(*    is kept in tenths (n = 129 is 12.9); an int is kept in units.        *)
(*  - A map[string]interface{} is a function from strings to such values.  *)
(*  - A map[string]string (a tag map) is a reference type: it lives in     *)
(*    heap, and a variable of that type holds an index into heap.          *)
(***************************************************************************)
EXTENDS Integers, Sequences, FiniteSets, TLC

VARIABLES
    Servers,    \* Mgd.Servers, the configured addresses
    pc,         \* position of the Gather call
    si,         \* number of gatherServer calls made so far by this Gather
    address,    \* gatherServer's address, after the default port is applied
    conn,       \* what the server of the http.Get in flight does
    fetched,    \* the addresses http.Get was called with, in call order
    mgdStatus,  \* the decoded status document of the current server
    tags,       \* gatherServer's tags (a reference into heap, 0 before any)
    ei,         \* index of the entry the current section loop is at
    heap,       \* the tag maps allocated so far
    acc,        \* the accumulator: every AddFields call, in call order
    log,        \* per AddFields call: where it came from, and its tags then
    err,        \* what Gather returns: "nil", an error, or a panic
    accTags,    \* gatherDownsteram's accTags (a reference into heap)
    fields,     \* gatherDownsteram's primary fields
    keys,       \* keys of the downsteram entry the range loop has yet to visit
    budget,     \* entries the servers may still return to this Gather
    failed,     \* where a type assertion panicked: section and offending key
    mutated     \* emissions whose tag map the consumer wrote to afterwards

vars == <<Servers, pc, si, address, conn, fetched, mgdStatus, tags, ei, heap,
          acc, log, err, accTags, fields, keys, budget, failed, mutated>>

\* ------------------------------------------------------------------ bounds

MaxServers == 3

MaxEntries == 2

MaxMutations == 1

MaxAddrServers == 2

MaxAddrEntries == 1

\* ------------------------------------------------------ interface{} values

Nil == [t |-> "nil", n |-> 0, s |-> "", m |-> <<>>]

GoFloat64(x) == [t |-> "float64", n |-> x, s |-> "", m |-> <<>>]

GoInt(x) == [t |-> "int", n |-> x, s |-> "", m |-> <<>>]

GoString(x) == [t |-> "string", n |-> 0, s |-> x, m |-> <<>>]

GoMap(f) == [t |-> "map", n |-> 0, s |-> "", m |-> f]

\* status[k] of a map[string]interface{}: the value, or nil when k is absent.
Get(status, k) == IF k \in DOMAIN status THEN status[k] ELSE Nil

\* ------------------------------------------------------------ pure helpers

\* strings.HasPrefix(s, prefix)
HasPrefix(s, prefix) ==
    Len(s) >= Len(prefix) /\ SubSeq(s, 1, Len(prefix)) = prefix

\* s[n:] of a Go string
SliceFrom(s, n) == SubSeq(s, n + 1, Len(s))

\* 1-based index of the first / last byte c of s, 0 when there is none
IndexByte(s, c) ==
    LET at == {i \in 1..Len(s) : SubSeq(s, i, i) = c}
    IN  IF at = {} THEN 0 ELSE CHOOSE i \in at : \A j \in at : i <= j

LastIndexByte(s, c) ==
    LET at == {i \in 1..Len(s) : SubSeq(s, i, i) = c}
    IN  IF at = {} THEN 0 ELSE CHOOSE i \in at : \A j \in at : i >= j

\* Whether net.SplitHostPort(hostport) returns an error.
SplitHostPortErr(hostport) ==
    LET i == LastIndexByte(hostport, ":") IN
    IF i = 0 THEN TRUE                                   \* missing port
    ELSE IF SubSeq(hostport, 1, 1) = "["
    THEN LET end == IndexByte(hostport, "]") IN
         IF end = 0 THEN TRUE                            \* missing ']'
         ELSE IF end = Len(hostport) THEN TRUE           \* missing port
         ELSE IF end + 1 # i THEN TRUE                   \* too many colons / missing port
         ELSE \/ IndexByte(SliceFrom(hostport, 1), "[") # 0
              \/ IndexByte(SliceFrom(hostport, end), "]") # 0
    ELSE \/ IndexByte(SubSeq(hostport, 1, i - 1), ":") # 0     \* too many colons
         \/ IndexByte(hostport, "[") # 0
         \/ IndexByte(hostport, "]") # 0

\* A gatherServer that appends the default port to every address.
AlwaysDefaultPort(addr) == addr \o ":50000"

\* gatherServer's address: ":50000" is appended when SplitHostPort fails.
NormalizeAddress(addr) ==
    IF SplitHostPortErr(addr) THEN addr \o ":50000" ELSE addr

\* The address Gather polls when no server is configured.
EmptyListAddress == ":50000"

\* A conversion that rounds to the nearest integer instead.
RoundFloat64(x) == IF x >= 0 THEN (x + 5) \div 10 ELSE -((5 - x) \div 10)

\* int(f) of a float64 f kept in tenths: the fraction is discarded.
IntOfFloat64(x) == IF x >= 0 THEN x \div 10 ELSE -((-x) \div 10)

\* int(status[k].(float64))
Minute(status, k) == GoInt(IntOfFloat64(Get(status, k).n))

\* Whether status[k].(float64) panics.
NotFloat64(status, k) == Get(status, k).t # "float64"

\* Whether status[k].(string) panics.
NotString(status, k) == Get(status, k).t # "string"

\* Whether status[k].(map[string]interface{}) panics.
NotMap(status, k) == Get(status, k).t # "map"

\* fields["tr-50"] = percentiles["50"], ... of the tr-percentiles mapping
Percentiles(status) ==
    LET percentiles == Get(status, "tr-percentiles").m IN
    ("tr-50" :> Get(percentiles, "50")) @@ ("tr-75" :> Get(percentiles, "75"))
    @@ ("tr-95" :> Get(percentiles, "95")) @@ ("tr-99" :> Get(percentiles, "99"))
    @@ ("tr-999" :> Get(percentiles, "999"))

\* ------------------------------------------------- per-section field sets

\* A fields literal that takes "sw" from "sw-fifteen-minute".
InversestreamFieldsSwOwnKey(status) ==
    ("ok" :> Get(status, "ok")) @@ ("jobs" :> Get(status, "jobs"))
    @@ ("one-minute" :> Minute(status, "one-minute"))
    @@ ("five-minute" :> Minute(status, "five-minute"))
    @@ ("fifteen-minute" :> Minute(status, "fifteen-minute"))
    @@ ("sw" :> Minute(status, "sw-fifteen-minute"))
    @@ ("sw-one-minute" :> Minute(status, "sw-one-minute"))
    @@ ("sw-five-minute" :> Minute(status, "sw-five-minute"))
    @@ ("sw-fifteen-minute" :> Minute(status, "sw-fifteen-minute"))

\* gatherInversestream's fields literal
InversestreamFields(status) ==
    ("ok" :> Get(status, "ok")) @@ ("jobs" :> Get(status, "jobs"))
    @@ ("one-minute" :> Minute(status, "one-minute"))
    @@ ("five-minute" :> Minute(status, "five-minute"))
    @@ ("fifteen-minute" :> Minute(status, "fifteen-minute"))
    @@ ("sw" :> Minute(status, "fifteen-minute"))
    @@ ("sw-one-minute" :> Minute(status, "sw-one-minute"))
    @@ ("sw-five-minute" :> Minute(status, "sw-five-minute"))
    @@ ("sw-fifteen-minute" :> Minute(status, "sw-fifteen-minute"))

\* Whether gatherInversestream panics on a type assertion.
InversestreamPanics(status) ==
    \/ \E k \in {"one-minute", "five-minute", "fifteen-minute", "sw-one-minute",
                  "sw-five-minute", "sw-fifteen-minute"} : NotFloat64(status, k)
    \/ NotString(status, "name")

\* gatherUpsteam's fields, the percentiles included
UpsteamFields(status) ==
    ("ok" :> Get(status, "ok")) @@ ("jobs" :> Get(status, "jobs"))
    @@ ("fail" :> Get(status, "fail")) @@ ("idling" :> Get(status, "idling"))
    @@ ("success" :> Get(status, "success")) @@ ("current" :> Get(status, "current"))
    @@ ("one-minute" :> Minute(status, "one-minute"))
    @@ ("five-minute" :> Minute(status, "five-minute"))
    @@ ("fifteen-minute" :> Minute(status, "fifteen-minute"))
    @@ ("tr-min" :> Get(status, "tr-min")) @@ ("tr-max" :> Get(status, "tr-max"))
    @@ Percentiles(status)

\* A gatherUpsteam that looks up tr-percentiles without asserting its type.
UpsteamPanicsLenient(status) ==
    \/ NotString(status, "name")
    \/ NotString(status, "src")
    \/ \E k \in {"one-minute", "five-minute", "fifteen-minute"} : NotFloat64(status, k)

\* Whether gatherUpsteam panics on a type assertion.
UpsteamPanics(status) ==
    \/ NotString(status, "name")
    \/ NotString(status, "src")
    \/ \E k \in {"one-minute", "five-minute", "fifteen-minute"} : NotFloat64(status, k)
    \/ NotMap(status, "tr-percentiles")

\* gatherFrontstream's fields literal
FrontstreamFields(status) ==
    ("ok" :> Get(status, "ok")) @@ ("jobs" :> Get(status, "jobs"))
    @@ ("fail" :> Get(status, "fail"))
    @@ ("one-minute" :> Minute(status, "one-minute"))
    @@ ("five-minute" :> Minute(status, "five-minute"))
    @@ ("fifteen-minute" :> Minute(status, "fifteen-minute"))

\* Whether gatherFrontstream panics on a type assertion.
FrontstreamPanics(status) ==
    \/ \E k \in {"one-minute", "five-minute", "fifteen-minute"} : NotFloat64(status, k)
    \/ NotString(status, "name")

\* gatherDownsteram's primary fields, the percentiles included
DownsteramFields(status) ==
    ("ok" :> Get(status, "ok")) @@ ("jobs" :> Get(status, "jobs"))
    @@ ("fail" :> Get(status, "fail"))
    @@ ("success" :> Get(status, "success")) @@ ("current" :> Get(status, "current"))
    @@ ("one-minute" :> Minute(status, "one-minute"))
    @@ ("five-minute" :> Minute(status, "five-minute"))
    @@ ("fifteen-minute" :> Minute(status, "fifteen-minute"))
    @@ ("tr-min" :> Get(status, "tr-min")) @@ ("tr-max" :> Get(status, "tr-max"))
    @@ Percentiles(status)

\* Whether gatherDownsteram panics before its range loop.
DownsteramPanics(status) ==
    \/ NotString(status, "name")
    \/ NotString(status, "app")
    \/ \E k \in {"one-minute", "five-minute", "fifteen-minute"} : NotFloat64(status, k)
    \/ NotMap(status, "tr-percentiles")

\* A range loop without the "fbs-" branch.
RangeKeysCodeOnly(status) == {k \in DOMAIN status : HasPrefix(k, "code-")}

\* The keys on which the range loop of gatherDownsteram does anything; on
\* every other key an iteration changes nothing.
RangeKeys(status) ==
    {k \in DOMAIN status : HasPrefix(k, "code-") \/ HasPrefix(k, "fbs-")}

\* ------------------------------------------------------------------ inputs

\* Addresses a configuration may list: with a port, without one, a bare IPv6
\* literal, a bracketed IPv6 literal with a port.
AddrPool == {"a:1", "b", "::1", "[::1]:9"}

\* A well-formed tr-percentiles mapping; "999" is absent.
PercentilesValue ==
    GoMap(("50" :> GoFloat64(15)) @@ ("75" :> GoFloat64(21)) @@ ("95" :> GoFloat64(48))
          @@ ("99" :> GoFloat64(97)))

CodeValue(count) == GoMap(("count" :> GoFloat64(count)) @@ ("tr-max" :> GoFloat64(38)))

InversestreamOk ==
    ("name" :> GoString("inv")) @@ ("ok" :> GoFloat64(10)) @@ ("jobs" :> GoFloat64(25))
    @@ ("one-minute" :> GoFloat64(129)) @@ ("five-minute" :> GoFloat64(-129))
    @@ ("fifteen-minute" :> GoFloat64(75)) @@ ("sw" :> GoFloat64(550))
    @@ ("sw-one-minute" :> GoFloat64(11)) @@ ("sw-five-minute" :> GoFloat64(200))
    @@ ("sw-fifteen-minute" :> GoFloat64(999)) @@ ("code-200" :> CodeValue(70))

\* sw-five-minute is missing
InversestreamBad ==
    ("name" :> GoString("inv")) @@ ("ok" :> GoFloat64(10)) @@ ("jobs" :> GoFloat64(25))
    @@ ("one-minute" :> GoFloat64(129)) @@ ("five-minute" :> GoFloat64(-129))
    @@ ("fifteen-minute" :> GoFloat64(75))
    @@ ("sw-one-minute" :> GoFloat64(11)) @@ ("sw-fifteen-minute" :> GoFloat64(999))

UpstreamOk ==
    ("name" :> GoString("up")) @@ ("src" :> GoString("10.0.0.9")) @@ ("ok" :> GoFloat64(10))
    @@ ("jobs" :> GoFloat64(40)) @@ ("fail" :> GoFloat64(0)) @@ ("idling" :> GoFloat64(25))
    @@ ("success" :> GoFloat64(15)) @@ ("current" :> GoFloat64(10))
    @@ ("one-minute" :> GoFloat64(5)) @@ ("five-minute" :> GoFloat64(-5))
    @@ ("fifteen-minute" :> GoFloat64(30)) @@ ("tr-min" :> GoFloat64(3))
    @@ ("tr-max" :> GoFloat64(999)) @@ ("tr-percentiles" :> PercentilesValue)

\* tr-percentiles is missing
UpstreamBad ==
    ("name" :> GoString("up")) @@ ("src" :> GoString("10.0.0.9")) @@ ("ok" :> GoFloat64(10))
    @@ ("one-minute" :> GoFloat64(5)) @@ ("five-minute" :> GoFloat64(-5))
    @@ ("fifteen-minute" :> GoFloat64(30))

DownsteramCommon ==
    ("name" :> GoString("down")) @@ ("app" :> GoString("shop")) @@ ("ok" :> GoFloat64(10))
    @@ ("jobs" :> GoFloat64(40)) @@ ("fail" :> GoFloat64(10)) @@ ("success" :> GoFloat64(30))
    @@ ("current" :> GoFloat64(0)) @@ ("one-minute" :> GoFloat64(129))
    @@ ("five-minute" :> GoFloat64(19)) @@ ("fifteen-minute" :> GoFloat64(-1))
    @@ ("tr-min" :> GoFloat64(3)) @@ ("tr-max" :> GoFloat64(999))
    @@ ("tr-percentiles" :> PercentilesValue)

\* two code- keys, no fbs- key, and a key that only contains "code-"
DownsteramCodes ==
    ("code-200" :> CodeValue(70)) @@ ("code-404" :> CodeValue(20))
    @@ ("xcode-1" :> CodeValue(10)) @@ DownsteramCommon

DownsteramFbs ==
    ("fbs-a" :> CodeValue(50)) @@ ("code-200" :> CodeValue(70)) @@ DownsteramCommon

\* the value under code-500 is not a mapping
DownsteramBadCode ==
    ("code-500" :> GoString("many")) @@ ("code-200" :> CodeValue(70)) @@ DownsteramCommon

\* app is not a string
DownsteramBadApp ==
    ("app" :> GoFloat64(10)) @@ ("code-200" :> CodeValue(70)) @@ DownsteramCommon

FrontstreamOk ==
    ("name" :> GoString("front")) @@ ("ok" :> GoFloat64(10)) @@ ("jobs" :> GoFloat64(20))
    @@ ("fail" :> GoFloat64(0)) @@ ("one-minute" :> GoFloat64(129))
    @@ ("five-minute" :> GoFloat64(-129)) @@ ("fifteen-minute" :> GoFloat64(0))
    @@ ("fbs-z" :> CodeValue(10))

\* one-minute is a string
FrontstreamBad ==
    ("name" :> GoString("front")) @@ ("ok" :> GoFloat64(10))
    @@ ("one-minute" :> GoString("12.9"))
    @@ ("five-minute" :> GoFloat64(-129)) @@ ("fifteen-minute" :> GoFloat64(0))

\* The entries a server may put into each section of its status document.
EntryPool ==
    [inversestream |-> {InversestreamOk, InversestreamBad},
     upstream      |-> {UpstreamOk, UpstreamBad},
     downsteram    |-> {DownsteramCodes, DownsteramFbs, DownsteramBadCode, DownsteramBadApp},
     frontstream   |-> {FrontstreamOk, FrontstreamBad}]

\* var defaultTimeout = 5 * time.Second, in seconds.  Nothing reads it: the
\* request goes through http.Get, whose client has no timeout, so no action
\* below ends a fetch that gets no answer.
defaultTimeout == 5

\* What the server of an http.Get may do: refuse the connection, answer with
\* a body that is not a status document, answer with one, or accept the
\* connection and never answer.
ConnBehaviours == {"refused", "garbage", "json", "silent"}

\* ------------------------------------------------------------------- state

Sections == {"inversestream", "upstream", "downsteram", "frontstream"}

EmptyStatus ==
    [inversestream |-> <<>>, upstream |-> <<>>, downsteram |-> <<>>, frontstream |-> <<>>]

\* Every list of at most MaxAddrServers addresses out of pool.
ServerLists(pool) == UNION {[1..n -> pool] : n \in 0..MaxAddrServers}

\* A list of n addresses, with and without a port in turn.
Configured(n) == [i \in 1..n |-> IF i % 2 = 1 THEN "a:1" ELSE "b"]

\* The state when Gather is called: a configuration out of lists, and
\* servers that return at most entries entries between them.
InitWith(lists, entries) ==
    /\ Servers \in lists
    /\ pc = "Gather"
    /\ si = 0
    /\ address = ""
    /\ conn = "none"
    /\ fetched = <<>>
    /\ mgdStatus = EmptyStatus
    /\ tags = 0
    /\ ei = 1
    /\ heap = <<>>
    /\ acc = <<>>
    /\ log = <<>>
    /\ err = "nil"
    /\ accTags = 0
    /\ fields = <<>>
    /\ keys = {}
    /\ budget = entries
    /\ failed = [section |-> "", key |-> ""]
    /\ mutated = {}

Init == InitWith({Configured(n) : n \in 0..MaxServers}, MaxEntries)

InitConsumer == InitWith({<<>>, <<"b">>}, MaxEntries)

InitAddr == InitWith(ServerLists(AddrPool), MaxAddrEntries)

\* ------------------------------------------------------ tag maps, emissions

\* accTags := tags: the same map, not a copy of it.
CopyTagsAlias(h, src) == <<h, src>>

\* accTags := map[string]string{}; for k, v := range tags { accTags[k] = v }
\* The heap with the new map, and the reference to it.
CopyTags(h, src) == <<Append(h, h[src]), Len(h) + 1>>

\* m[k] = v on the tag map h[ref]
SetTag(h, ref, k, v) == [h EXCEPT ![ref] = (k :> v) @@ @]

\* What acc.AddFields(measurement, flds, ref) hands to the accumulator.
Emission(measurement, flds, ref) ==
    [measurement |-> measurement, fields |-> flds, tags |-> ref]

\* Where an AddFields call came from, and the contents of its tag map then.
Origin(section, key, tagMap) ==
    [server |-> si, section |-> section, entry |-> ei, key |-> key, tags |-> tagMap]

\* A failed type assertion: the panic unwinds gatherServer and Gather.
Panic(section, key) ==
    /\ pc' = "done"
    /\ err' = "panic"
    /\ failed' = [section |-> section, key |-> key]

\* ------------------------------------------------------------------ Gather

\* Gather: the next gatherServer call, up to its http.Get.
GatherCallServer ==
    /\ pc = "Gather"
    /\ IF Servers = <<>> THEN si = 0 ELSE si < Len(Servers)
    /\ LET serverAddress == IF Servers = <<>> THEN EmptyListAddress ELSE Servers[si + 1]
       IN  /\ address' = NormalizeAddress(serverAddress)
           /\ fetched' = Append(fetched, NormalizeAddress(serverAddress))
    /\ si' = si + 1
    /\ conn' \in ConnBehaviours
    /\ pc' = "http.Get"
    /\ UNCHANGED <<Servers, mgdStatus, tags, ei, heap, acc, log, err, accTags,
                   fields, keys, budget, failed, mutated>>

\* Gather: every server is done, return nil.
GatherReturn ==
    /\ pc = "Gather"
    /\ si >= 1
    /\ si >= Len(Servers)
    /\ pc' = "done"
    /\ UNCHANGED <<Servers, si, address, conn, fetched, mgdStatus, tags, ei, heap,
                   acc, log, err, accTags, fields, keys, budget, failed, mutated>>

\* A Gather that goes on with the next server after an error.
OnServerErrorContinue == "Gather"

\* Gather, when gatherServer returns an error: return it.
OnServerError == "done"

\* http.Get returns an error; gatherServer returns it.
HttpGetErr ==
    /\ pc = "http.Get"
    /\ conn = "refused"
    /\ err' = "transport"
    /\ pc' = OnServerError
    /\ conn' = "none"
    /\ UNCHANGED <<Servers, si, address, fetched, mgdStatus, tags, ei, heap, acc,
                   log, accTags, fields, keys, budget, failed, mutated>>

\* parseResponse returns an error; gatherServer returns it.
ParseResponseErr ==
    /\ pc = "http.Get"
    /\ conn = "garbage"
    /\ err' = "decode"
    /\ pc' = OnServerError
    /\ conn' = "none"
    /\ UNCHANGED <<Servers, si, address, fetched, mgdStatus, tags, ei, heap, acc,
                   log, accTags, fields, keys, budget, failed, mutated>>

\* parseResponse returns a status document; gatherServer builds its tags.
ParseResponseOk ==
    /\ pc = "http.Get"
    /\ conn = "json"
    /\ \E a \in 0..budget : \E b \in 0..(budget - a) : \E c \in 0..(budget - a - b) :
       \E d \in 0..(budget - a - b - c) :
         /\ mgdStatus' \in [inversestream : [1..a -> EntryPool.inversestream],
                            upstream      : [1..b -> EntryPool.upstream],
                            downsteram    : [1..c -> EntryPool.downsteram],
                            frontstream   : [1..d -> EntryPool.frontstream]]
         /\ budget' = budget - a - b - c - d
    /\ heap' = Append(heap, [server |-> address])
    /\ tags' = Len(heap) + 1
    /\ pc' = "inversestream"
    /\ ei' = 1
    /\ conn' = "none"
    /\ UNCHANGED <<Servers, si, address, fetched, acc, log, err, accTags, fields,
                   keys, failed, mutated>>

\* A gatherServer whose downsteram loop comes before its upstream loop.
NextLoopDownsteramFirst(section) ==
    CASE section = "inversestream" -> "downsteram"
      [] section = "downsteram"    -> "upstream"
      [] section = "upstream"      -> "frontstream"
      [] section = "frontstream"   -> "Gather"

\* gatherServer: the loop that follows the loop over a section; after the
\* last one gatherServer returns nil to Gather.
NextLoop(section) ==
    CASE section = "inversestream" -> "upstream"
      [] section = "upstream"      -> "downsteram"
      [] section = "downsteram"    -> "frontstream"
      [] section = "frontstream"   -> "Gather"

\* gatherServer: a section's loop has visited every entry.
LoopEnd ==
    /\ pc \in Sections
    /\ ei > Len(mgdStatus[pc])
    /\ pc' = NextLoop(pc)
    /\ ei' = 1
    /\ UNCHANGED <<Servers, si, address, conn, fetched, mgdStatus, tags, heap, acc,
                   log, err, accTags, fields, keys, budget, failed, mutated>>
\* ---------------------------------------------------------- section entries

\* gatherInversestream, called by gatherServer on entry ei of the inversestream section.
gatherInversestream ==
    /\ pc = "inversestream"
    /\ ei <= Len(mgdStatus.inversestream)
    /\ LET status == mgdStatus.inversestream[ei] IN
       IF InversestreamPanics(status)
       THEN /\ Panic("inversestream", "")
            /\ UNCHANGED <<ei, heap, acc, log>>
       ELSE LET ct == CopyTags(heap, tags)
                h  == SetTag(ct[1], ct[2], "name", status["name"].s)
            IN  /\ heap' = h
                /\ acc' = Append(acc, Emission("inversestream", InversestreamFields(status), ct[2]))
                /\ log' = Append(log, Origin("inversestream", "", h[ct[2]]))
                /\ ei' = ei + 1
                /\ UNCHANGED <<pc, err, failed>>
    /\ UNCHANGED <<Servers, si, address, conn, fetched, mgdStatus, tags, accTags,
                   fields, keys, budget, mutated>>

\* gatherUpsteam, called by gatherServer on entry ei of the upstream section.
gatherUpsteam ==
    /\ pc = "upstream"
    /\ ei <= Len(mgdStatus.upstream)
    /\ LET status == mgdStatus.upstream[ei] IN
       IF UpsteamPanics(status)
       THEN /\ Panic("upstream", "")
            /\ UNCHANGED <<ei, heap, acc, log>>
       ELSE LET ct == CopyTags(heap, tags)
                h  == SetTag(SetTag(ct[1], ct[2], "name", status["name"].s), ct[2], "src", status["src"].s)
            IN  /\ heap' = h
                /\ acc' = Append(acc, Emission("upstream", UpsteamFields(status), ct[2]))
                /\ log' = Append(log, Origin("upstream", "", h[ct[2]]))
                /\ ei' = ei + 1
                /\ UNCHANGED <<pc, err, failed>>
    /\ UNCHANGED <<Servers, si, address, conn, fetched, mgdStatus, tags, accTags,
                   fields, keys, budget, mutated>>

\* gatherFrontstream, called by gatherServer on entry ei of the frontstream section.
gatherFrontstream ==
    /\ pc = "frontstream"
    /\ ei <= Len(mgdStatus.frontstream)
    /\ LET status == mgdStatus.frontstream[ei] IN
       IF FrontstreamPanics(status)
       THEN /\ Panic("frontstream", "")
            /\ UNCHANGED <<ei, heap, acc, log>>
       ELSE LET ct == CopyTags(heap, tags)
                h  == SetTag(ct[1], ct[2], "name", status["name"].s)
            IN  /\ heap' = h
                /\ acc' = Append(acc, Emission("frontstream", FrontstreamFields(status), ct[2]))
                /\ log' = Append(log, Origin("frontstream", "", h[ct[2]]))
                /\ ei' = ei + 1
                /\ UNCHANGED <<pc, err, failed>>
    /\ UNCHANGED <<Servers, si, address, conn, fetched, mgdStatus, tags, accTags,
                   fields, keys, budget, mutated>>

\* gatherDownsteram up to its range loop: accTags and the primary fields.
gatherDownsteram ==
    /\ pc = "downsteram"
    /\ ei <= Len(mgdStatus.downsteram)
    /\ LET status == mgdStatus.downsteram[ei] IN
       IF DownsteramPanics(status)
       THEN /\ Panic("downsteram", "")
            /\ UNCHANGED <<heap, accTags, fields, keys>>
       ELSE LET ct == CopyTags(heap, tags)
                h  == SetTag(SetTag(ct[1], ct[2], "name", status["name"].s),
                             ct[2], "app", status["app"].s)
            IN  /\ heap' = h
                /\ accTags' = ct[2]
                /\ fields' = DownsteramFields(status)
                /\ keys' = RangeKeys(status)
                /\ pc' = "range"
                /\ UNCHANGED <<err, failed>>
    /\ UNCHANGED <<Servers, si, address, conn, fetched, mgdStatus, tags, ei, acc,
                   log, budget, mutated>>

\* code := tag[4:], which keeps the dash of the prefix.
CodeOfKeepsDash(tag) == SliceFrom(tag, 4)

\* code := tag[5:]
CodeOf(tag) == SliceFrom(tag, 5)

\* fbs := tag[4:]
FbsOf(tag) == SliceFrom(tag, 4)

\* One iteration of gatherDownsteram's range loop; Go visits the keys of a
\* map in an unspecified order.
RangeStatus ==
    /\ pc = "range"
    /\ \E tag \in keys :
         LET value == mgdStatus.downsteram[ei][tag]
             ct    == CopyTags(heap, accTags)
         IN  IF HasPrefix(tag, "code-")
             THEN IF value.t # "map"
                  THEN /\ Panic("downsteram", tag)
                       /\ UNCHANGED <<heap, acc, log, keys>>
                  ELSE LET h == SetTag(ct[1], ct[2], "code", CodeOf(tag)) IN
                       /\ heap' = h
                       /\ acc' = Append(acc, Emission("dsc", value.m, ct[2]))
                       /\ log' = Append(log, Origin("downsteram", tag, h[ct[2]]))
                       /\ keys' = keys \ {tag}
                       /\ UNCHANGED <<pc, err, failed>>
             ELSE IF HasPrefix(tag, "fbs-")
             THEN IF value.t # "map"
                  THEN /\ Panic("downsteram", tag)
                       /\ UNCHANGED <<heap, acc, log, keys>>
                  ELSE LET h == SetTag(ct[1], ct[2], "fbs", FbsOf(tag)) IN
                       /\ heap' = h
                       /\ acc' = Append(acc, Emission("fbs", value.m, ct[2]))
                       /\ log' = Append(log, Origin("downsteram", tag, h[ct[2]]))
                       /\ keys' = keys \ {tag}
                       /\ UNCHANGED <<pc, err, failed>>
             ELSE /\ keys' = keys \ {tag}
                  /\ UNCHANGED <<pc, err, failed, heap, acc, log>>
    /\ UNCHANGED <<Servers, si, address, conn, fetched, mgdStatus, tags, ei, accTags,
                   fields, budget, mutated>>

\* gatherDownsteram after its range loop: the primary emission.
DownsteramAddFields ==
    /\ pc = "range"
    /\ keys = {}
    /\ acc' = Append(acc, Emission("downsteram", fields, accTags))
    /\ log' = Append(log, Origin("downsteram", "", heap[accTags]))
    /\ ei' = ei + 1
    /\ pc' = "downsteram"
    /\ accTags' = 0
    /\ fields' = <<>>
    /\ UNCHANGED <<Servers, si, address, conn, fetched, mgdStatus, tags, heap, err,
                   keys, budget, failed, mutated>>

\* ---------------------------------------------------------------- consumer

\* The consumer of an emission writes to the tag map it was handed.
MutateTags ==
    /\ Cardinality(mutated) < MaxMutations
    /\ \E j \in (1..Len(acc)) \ mutated :
         /\ heap' = SetTag(heap, acc[j].tags, "server", "mutated")
         /\ mutated' = mutated \cup {j}
    /\ UNCHANGED <<Servers, pc, si, address, conn, fetched, mgdStatus, tags, ei, acc,
                   log, err, accTags, fields, keys, budget, failed>>

\* ----------------------------------------------------------- specifications

GatherNext ==
    \/ GatherCallServer
    \/ GatherReturn
    \/ HttpGetErr
    \/ ParseResponseErr
    \/ ParseResponseOk
    \/ LoopEnd
    \/ gatherInversestream
    \/ gatherUpsteam
    \/ gatherDownsteram
    \/ RangeStatus
    \/ DownsteramAddFields
    \/ gatherFrontstream

Next == GatherNext

Spec == Init /\ [][Next]_vars

NextWithConsumer == GatherNext \/ MutateTags

SpecConsumer == InitConsumer /\ [][NextWithConsumer]_vars

SpecAddr == InitAddr /\ [][Next]_vars

\* ------------------------------------------------------------------ claims

\* gatherServer has returned nil for server si, whose document is mgdStatus.
PassDone == err = "nil" /\ si >= 1 /\ pc \in {"Gather", "done"}

\* The emissions of the current server.
Mine == {j \in 1..Len(acc) : log[j].server = si}

IsCodeKey(k) == Len(k) >= 5 /\ SubSeq(k, 1, 5) = "code-"

IsFbsKey(k) == Len(k) >= 4 /\ SubSeq(k, 1, 4) = "fbs-"

\* The tags the claims expect on the primary emission of an entry.
ExpectedTags(section, status) ==
    CASE section = "upstream" ->
             [server |-> address, name |-> status["name"].s, src |-> status["src"].s]
      [] section = "downsteram" ->
             [server |-> address, name |-> status["name"].s, app |-> status["app"].s]
      [] OTHER -> [server |-> address, name |-> status["name"].s]

\* The emissions of the current server that came from entry e of section,
\* key k of it ("" for the primary emission).
From(section, e, k) ==
    {j \in Mine : log[j].section = section /\ log[j].entry = e /\ log[j].key = k}

\* C1: a pass over a decoded document calls the accumulator exactly once per
\* entry, with the section's measurement name and the base tags plus name
\* (plus src for upstream, plus app for downsteram), and exactly once more per
\* "code-"/"fbs-" key of a downsteram entry; the number of calls is the number
\* of entries plus the number of such keys, identical emissions included.
C1_OneEmissionPerEntryAndPrefixedKey ==
    PassDone =>
      LET prefixed == {<<e, k>> \in (1..Len(mgdStatus.downsteram)) \X
                                    (UNION {DOMAIN mgdStatus.downsteram[e] :
                                              e \in 1..Len(mgdStatus.downsteram)}) :
                         /\ k \in DOMAIN mgdStatus.downsteram[e]
                         /\ IsCodeKey(k) \/ IsFbsKey(k)}
          entries  == {<<sec, e>> \in Sections \X (1..MaxEntries + 1) :
                         e <= Len(mgdStatus[sec])}
      IN  /\ \A p \in entries :
               /\ Cardinality(From(p[1], p[2], "")) = 1
               /\ \A j \in From(p[1], p[2], "") :
                    /\ acc[j].measurement = p[1]
                    /\ log[j].tags = ExpectedTags(p[1], mgdStatus[p[1]][p[2]])
          /\ \A p \in prefixed : Cardinality(From("downsteram", p[1], p[2])) = 1
          /\ Cardinality(Mine) = Cardinality(entries) + Cardinality(prefixed)

\* C1 witness: a pass over two identical downsteram entries, each with two
\* prefixed keys, has made six calls, two of them identical primary emissions.
C1_Witness ==
    /\ PassDone
    /\ mgdStatus.downsteram = <<DownsteramCodes, DownsteramCodes>>
    /\ Cardinality(Mine) = 6
    /\ \E i, j \in Mine :
         /\ i < j
         /\ acc[i].measurement = "downsteram" /\ acc[j].measurement = "downsteram"
         /\ acc[i].fields = acc[j].fields
         /\ log[i].tags = log[j].tags

Rank(section) ==
    CASE section = "inversestream" -> 1
      [] section = "upstream"      -> 2
      [] section = "downsteram"    -> 3
      [] section = "frontstream"   -> 4

\* C2: the emissions reach the accumulator in section order inversestream,
\* upstream, downsteram, frontstream, and within a section in the order of
\* the entries in the document.
C2_SectionAndEntryOrder ==
    \A i, j \in 1..Len(log) :
      (i < j /\ log[i].server = log[j].server) =>
        \/ Rank(log[i].section) < Rank(log[j].section)
        \/ /\ log[i].section = log[j].section
           /\ log[i].entry <= log[j].entry

\* C2 witness: a pass has emitted for an upstream entry and then for a
\* downsteram entry.
C2_Witness ==
    /\ PassDone
    /\ \E i, j \in Mine :
         i < j /\ log[i].section = "upstream" /\ log[j].section = "downsteram"

\* C3: every "code-" key of a downsteram entry yields exactly one "dsc"
\* emission tagged with the primary tags plus code = the key without its
\* prefix, with the mapping under the key as fields; every "fbs-" key yields
\* exactly one "fbs" emission likewise; no other key yields a secondary
\* emission, and no other section yields a "dsc" or "fbs" emission.
C3_SecondaryEmissions ==
    /\ \A j \in 1..Len(acc) :
         acc[j].measurement \in {"dsc", "fbs"} => log[j].section = "downsteram"
    /\ PassDone =>
         \A e \in 1..Len(mgdStatus.downsteram) :
           LET status  == mgdStatus.downsteram[e]
               primary == ExpectedTags("downsteram", status)
           IN  /\ \A k \in DOMAIN status :
                    LET got == From("downsteram", e, k) IN
                    IF IsCodeKey(k)
                    THEN /\ Cardinality(got) = 1
                         /\ \A j \in got :
                              /\ acc[j].measurement = "dsc"
                              /\ log[j].tags =
                                   ("code" :> SubSeq(k, 6, Len(k))) @@ primary
                              /\ acc[j].fields = status[k].m
                    ELSE IF IsFbsKey(k)
                    THEN /\ Cardinality(got) = 1
                         /\ \A j \in got :
                              /\ acc[j].measurement = "fbs"
                              /\ log[j].tags =
                                   ("fbs" :> SubSeq(k, 5, Len(k))) @@ primary
                              /\ acc[j].fields = status[k].m
                    ELSE got = {}
               /\ Cardinality({j \in Mine : log[j].entry = e
                                              /\ acc[j].measurement = "dsc"})
                    = Cardinality({k \in DOMAIN status : IsCodeKey(k)})
               /\ Cardinality({j \in Mine : log[j].entry = e
                                              /\ acc[j].measurement = "fbs"})
                    = Cardinality({k \in DOMAIN status : IsFbsKey(k)})

\* C3 witness: an entry with code-200 and code-404 and no fbs- key has yielded
\* two "dsc" emissions, tagged 200 and 404, and no "fbs" emission.
C3_Witness ==
    /\ PassDone
    /\ mgdStatus.downsteram = <<DownsteramCodes>>
    /\ {log[j].tags["code"] : j \in {i \in Mine : acc[i].measurement = "dsc"}}
         = {"200", "404"}
    /\ Cardinality({i \in Mine : acc[i].measurement = "dsc"}) = 2
    /\ {i \in Mine : acc[i].measurement = "fbs"} = {}

\* C4: Gather polls the servers one at a time in configuration order; when
\* http.Get or parseResponse fails for server i, Gather returns that error at
\* once: no later server is fetched, nothing is emitted for server i or a
\* later one, and what was emitted before stays in the accumulator.
C4_FailFast ==
    /\ [](/\ Len(fetched) = si
          /\ \A i \in 1..Len(fetched) :
               IF Servers = <<>>
               THEN i = 1
               ELSE /\ i <= Len(Servers)
                    /\ fetched[i] \in {Servers[i], Servers[i] \o ":50000"}
          /\ \A j \in 1..Len(log) :
               /\ log[j].server <= si
               /\ \A i \in 1..j : log[i].server <= log[j].server
          /\ err \in {"transport", "decode"} =>
               /\ pc = "done"
               /\ \A j \in 1..Len(log) : log[j].server < si)
    /\ [][/\ Len(acc') >= Len(acc)
          /\ SubSeq(acc', 1, Len(acc)) = acc
          /\ Len(fetched') >= Len(fetched)
          /\ SubSeq(fetched', 1, Len(fetched)) = fetched]_vars

\* C4 witness: Gather has returned the error of the second of three servers;
\* the third was never fetched and the emissions of the first are recorded.
C4_Witness ==
    /\ pc = "done"
    /\ err \in {"transport", "decode"}
    /\ Len(Servers) = 3
    /\ si = 2
    /\ Len(fetched) = 2
    /\ Len(acc) > 0
    /\ \A j \in 1..Len(log) : log[j].server = 1

\* The keys an entry of a section must hold, by the type it must hold them
\* with: what the claims call a well-formed entry.
NumberKeys(section) ==
    IF section = "inversestream"
    THEN {"one-minute", "five-minute", "fifteen-minute",
          "sw-one-minute", "sw-five-minute", "sw-fifteen-minute"}
    ELSE {"one-minute", "five-minute", "fifteen-minute"}

StringKeys(section) ==
    CASE section = "upstream"   -> {"name", "src"}
      [] section = "downsteram" -> {"name", "app"}
      [] OTHER                  -> {"name"}

MappingKeys(section, status) ==
    CASE section = "upstream"   -> {"tr-percentiles"}
      [] section = "downsteram" ->
            {"tr-percentiles"} \cup {k \in DOMAIN status : IsCodeKey(k) \/ IsFbsKey(k)}
      [] OTHER                  -> {}

HasType(status, k, type) == k \in DOMAIN status /\ status[k].t = type

WellFormed(section, status) ==
    /\ \A k \in NumberKeys(section) : HasType(status, k, "float64")
    /\ \A k \in StringKeys(section) : HasType(status, k, "string")
    /\ \A k \in MappingKeys(section, status) : HasType(status, k, "map")

\* C5 as claimed: when an entry lacks an expected key or holds it with the
\* wrong type, the accumulator has received no emission from the section the
\* failing entry is in.
C5_NoEmissionFromFailingSection ==
    err = "panic" => \A j \in Mine : log[j].section # failed.section

\* C5 as amended: an entry that lacks an expected key or holds it with the
\* wrong type makes Gather panic at that entry.  Nothing is emitted for the
\* primary measurement of a malformed entry, nor for a later entry, section
\* or server; a pass that returns nil has met well-formed entries only.  What
\* was emitted before the panic stays: the emissions of earlier entries, and
\* the secondary emissions of the failing downsteram entry for the keys its
\* range loop visited before the key whose value is not a mapping.
C5_FailsAtTheEntry ==
    /\ \A j \in Mine :
         /\ log[j].key = "" =>
              WellFormed(log[j].section, mgdStatus[log[j].section][log[j].entry])
         /\ log[j].key # "" =>
              HasType(mgdStatus.downsteram[log[j].entry], log[j].key, "map")
    /\ PassDone =>
         \A sec \in Sections : \A e \in 1..Len(mgdStatus[sec]) :
           WellFormed(sec, mgdStatus[sec][e])
    /\ err = "panic" =>
         /\ pc = "done"
         /\ ~WellFormed(failed.section, mgdStatus[failed.section][ei])
         /\ \A j \in 1..Len(log) : log[j].server <= si
         /\ \A j \in Mine :
              /\ Rank(log[j].section) <= Rank(failed.section)
              /\ log[j].section = failed.section =>
                   \/ log[j].entry < ei
                   \/ /\ log[j].entry = ei
                      /\ failed.key # ""
                      /\ log[j].key \notin {"", failed.key}

\* C5 witness: the value under code-500 of the second downsteram entry is not
\* a mapping; Gather has panicked with the first entry's emissions and the
\* failing entry's "dsc" emission for code-200 in the accumulator.
C5_Witness ==
    /\ err = "panic"
    /\ failed = [section |-> "downsteram", key |-> "code-500"]
    /\ ei = 2
    /\ From("downsteram", 1, "") # {}
    /\ From("downsteram", 2, "code-200") # {}
    /\ From("downsteram", 2, "") = {}

HostChars(h) == \A i \in 1..Len(h) : SubSeq(h, i, i) \notin {":", "[", "]"}

\* An address that already names a port: host:port or [host]:port.
ContainsPort(a) ==
    \E i \in 1..Len(a) :
      /\ SubSeq(a, i, i) = ":"
      /\ HostChars(SubSeq(a, i + 1, Len(a)))
      /\ \/ HostChars(SubSeq(a, 1, i - 1))
         \/ /\ i >= 3
            /\ SubSeq(a, 1, 1) = "["
            /\ SubSeq(a, i - 1, i - 1) = "]"
            /\ \A n \in 2..(i - 2) : SubSeq(a, n, n) \notin {"[", "]"}

\* C6: a Gather that succeeds has fetched ":50000" once when no server is
\* configured, and otherwise each configured address once, in order, as it
\* is when it names a port and with ":50000" appended when it names none.
C6_FetchedAddresses ==
    (pc = "done" /\ err = "nil") =>
      IF Servers = <<>>
      THEN fetched = <<":50000">>
      ELSE /\ Len(fetched) = Len(Servers)
           /\ \A i \in 1..Len(Servers) :
                fetched[i] = IF ContainsPort(Servers[i])
                             THEN Servers[i]
                             ELSE Servers[i] \o ":50000"

\* C6 witness: with ["a:1", "b"] configured, a successful Gather has fetched
\* "a:1" and then "b:50000".
C6_Witness ==
    /\ pc = "done"
    /\ err = "nil"
    /\ Servers = <<"a:1", "b">>
    /\ fetched = <<"a:1", "b:50000">>

\* C7: every emission is handed its own tag map: a write to the tag map of
\* one emission changes the tag map of no other emission, earlier or later,
\* and the tags of gatherServer hold the "server" tag alone throughout.
C7_TagMapsAreCopies ==
    /\ \A j \in (1..Len(acc)) \ mutated : heap[acc[j].tags] = log[j].tags
    /\ \A i, j \in 1..Len(acc) : i # j => acc[i].tags # acc[j].tags
    /\ tags # 0 =>
         /\ \E i \in 1..Len(fetched) : heap[tags] = [server |-> fetched[i]]
         /\ pc \in Sections \cup {"range"} => heap[tags] = [server |-> address]
         /\ \A j \in 1..Len(acc) : acc[j].tags # tags

\* C7 witness: the consumer wrote to the tag map of a secondary emission of a
\* downsteram entry before the primary emission of that entry was made.
C7_Witness ==
    \E i \in mutated : \E j \in 1..Len(acc) :
      /\ i < j
      /\ log[i].section = "downsteram" /\ log[j].section = "downsteram"
      /\ log[i].server = log[j].server /\ log[i].entry = log[j].entry
      /\ log[i].key # "" /\ log[j].key = ""
      /\ heap[acc[i].tags]["server"] = "mutated"
      /\ heap[acc[j].tags]["server"] = address

\* v is the float64 x (in tenths) with its fraction discarded.
IsTruncationOf(v, x) ==
    IF x >= 0 THEN 10 * v <= x /\ x < 10 * (v + 1)
              ELSE 10 * (v - 1) < x /\ x <= 10 * v

\* The fields the claims list as passed through as they are.
PassedThrough(section) ==
    CASE section = "inversestream" -> {"ok", "jobs"}
      [] section = "upstream"      ->
            {"ok", "jobs", "fail", "idling", "success", "current", "tr-min", "tr-max"}
      [] section = "downsteram"    ->
            {"ok", "jobs", "fail", "success", "current", "tr-min", "tr-max"}
      [] section = "frontstream"   -> {"ok", "jobs", "fail"}

C9_SwIsFifteenMinute ==
    /\ \A j \in 1..Len(acc) :
         acc[j].measurement = "inversestream" =>
           acc[j].fields["sw"] = acc[j].fields["fifteen-minute"]
    /\ \A j \in Mine :
         acc[j].measurement = "inversestream" =>
           /\ acc[j].fields["sw"].t = "int"
           /\ IsTruncationOf(acc[j].fields["sw"].n,
                             mgdStatus.inversestream[log[j].entry]["fifteen-minute"].n)

\* C9 witness: an entry with fifteen-minute 7.5, sw-fifteen-minute 99.9 and
\* sw 55.0 was emitted with sw 7 and sw-fifteen-minute 99.
C9_Witness ==
    \E j \in Mine :
      /\ acc[j].measurement = "inversestream"
      /\ mgdStatus.inversestream[log[j].entry]["fifteen-minute"] = GoFloat64(75)
      /\ mgdStatus.inversestream[log[j].entry]["sw-fifteen-minute"] = GoFloat64(999)
      /\ mgdStatus.inversestream[log[j].entry]["sw"] = GoFloat64(550)
      /\ acc[j].fields["sw"] = GoInt(7)
      /\ acc[j].fields["sw-fifteen-minute"] = GoInt(99)

\* C10 as claimed: every Gather call returns, so a call that has not returned
\* can always take a step: a fetch that gets no answer is ended by a timeout.
C10_GatherAlwaysReturns == pc = "done" \/ ENABLED GatherNext
====
